---- MODULE Spec2Model ----
(***************************************************************************)
(* Ravine Despoiler (Arduboy): the fixed-point physics of GameObject,      *)
(* Plane and Zeppelin and the screen state machine of Game.h, as a state   *)
(* machine.  Fixed-point values are held as their internal integers:       *)
(* a Number (SFixed<7,8>) v is the integer v * 2^8 in 16 bits, a BigNumber *)
(* (SFixed<15,16>) v is the integer v * 2^16 in 32 bits.                   *)
(***************************************************************************)
EXTENDS Integers, FiniteSets, Sequences, TLC

VARIABLES pc, state, frameCount, plane, zeppelin, buttons, ticks, quiet, last, body

vars == <<pc, state, frameCount, plane, zeppelin, buttons, ticks, quiet, last, body>>

-----------------------------------------------------------------------------
(* Bounds of the model *)

\* Spec: frames explored in TITLE_SCREEN and in GAME_ACTIVE before the model stops
MaxTitleFrames == 4
MaxGameFrames == 4
\* ticks since setup() are counted up to this horizon, then no further
TickHorizon == 93
\* SpecTour: frames explored in TITLE_SCREEN and in GAME_ACTIVE
TourTitleFrames == 750
TourGameFrames == 500
\* SpecTour: the player starts the game within this many title frames, or never
StartWindow == 2
\* SpecTour: the player steers only within this many pixels of a plane bound
SteerZone == 6
\* number of intervals the sampled random draws divide [lo, hi] into
DrawCount == 2
\* SpecBounce: the largest whole-pixel speed among the sampled velocities
MaxSpeed == 3
\* SpecFall: the number of intervals the start heights divide [y_min, y_max] into
Drops == 16384

-----------------------------------------------------------------------------
(* Fixed-point numbers *)

NumberFrac == 8
BigNumberFrac == 16
NumberBits == 16
BigNumberBits == 32
FrameBits == 16

Pow2(n) == 2 ^ n

\* the SFixed constructor from a literal n/d: the scaled value truncated toward zero
FromLiteral(n, d, frac) ==
  IF n >= 0 THEN (n * Pow2(frac)) \div d ELSE -(((-n) * Pow2(frac)) \div d)

Num(n, d) == FromLiteral(n, d, NumberFrac)
Big(n, d) == FromLiteral(n, d, BigNumberFrac)

\* the extremes of a signed width, written so that no intermediate value
\* leaves 32 bits
MaxOf(bits) == (Pow2(bits - 2) - 1) + Pow2(bits - 2)
MinOf(bits) == -MaxOf(bits) - 1
Fits(v, bits) == MinOf(bits) <= v /\ v <= MaxOf(bits)

\* static_cast to the internal type of a value the wider type holds
Wrap(v, bits) == ((v + Pow2(bits - 1)) % Pow2(bits)) - Pow2(bits - 1)

\* The results a signed operation of the internal type can produce: the exact
\* one when it fits the width; on overflow (undefined for a signed type) the
\* wrapped or the saturated one.
Add(a, b, bits) ==
  IF b > 0 /\ a > MaxOf(bits) - b
    THEN { (a + MinOf(bits)) + (b + MinOf(bits)), MaxOf(bits) }
  ELSE IF b < 0 /\ a < MinOf(bits) - b
    THEN { (a - MinOf(bits)) + (b - MinOf(bits)), MinOf(bits) }
  ELSE { a + b }

Neg(a, bits) == IF a = MinOf(bits) THEN { MinOf(bits), MaxOf(bits) } ELSE { -a }

\* SFixed<7,8> product: the 32-bit product shifted right by the fraction (floor),
\* cast back to 16 bits
NumberMul(a, b) == Wrap((a * b) \div Pow2(NumberFrac), NumberBits)

-----------------------------------------------------------------------------
(* Program constants *)

WIDTH == 128
HEIGHT == 64
plane_width == 16
plane_height == 8
ravine_top == 40

CoefficientOfFriction == Num(95, 100)
CoefficientOfGravity == Num(1, 2)
\* mutant: nothing is lost in a bounce on y_max
CoefficientOfRestitution_elastic == Num(1, 1)
CoefficientOfRestitution == Num(7, 10)
RestitutionThreshold == 16
InputForce == Num(1, 4)

INITIAL_LOGO == "INITIAL_LOGO"
TITLE_SCREEN == "TITLE_SCREEN"
OBJECTIVE_SCREEN == "OBJECTIVE_SCREEN"
GAME_ACTIVE == "GAME_ACTIVE"
LEVEL_COMPLETE == "LEVEL_COMPLETE"
GameState == {INITIAL_LOGO, TITLE_SCREEN, OBJECTIVE_SCREEN, GAME_ACTIVE, LEVEL_COMPLETE}

LEFT_BUTTON == "LEFT"
RIGHT_BUTTON == "RIGHT"
A_BUTTON == "A"
B_BUTTON == "B"

-----------------------------------------------------------------------------
(* GameObject *)

GameObject ==
  [x |-> Big(0, 1), x_min |-> Big(0, 1), x_max |-> Big(WIDTH, 1), x_vel |-> Big(0, 1),
   y |-> Num(0, 1), y_min |-> Num(0, 1), y_max |-> Num(HEIGHT, 1), y_vel |-> Num(0, 1)]

constrain(v, lo, hi) == IF v < lo THEN lo ELSE IF v > hi THEN hi ELSE v

\* mutant: the y of the argument is stored without being constrained
move_rawY(o, newX, newY) ==
  [o EXCEPT !.x = constrain(newX, o.x_min, o.x_max), !.y = newY]

move(o, newX, newY) ==
  [o EXCEPT !.x = constrain(newX, o.x_min, o.x_max),
            !.y = constrain(newY, o.y_min, o.y_max)]

adjust(o, dx, dy) ==
  { move(o, nx, ny) : nx \in Add(o.x, dx, BigNumberBits),
                      ny \in Add(o.y, dy, NumberBits) }

\* mutant: a bounce negates the velocity but leaves the body beyond the bound
applyXVelocity_noclamp(o) ==
  UNION { IF s < o.x_min \/ s > o.x_max
            THEN { [o EXCEPT !.x = s, !.x_vel = n] : n \in Neg(o.x_vel, BigNumberBits) }
            ELSE { [o EXCEPT !.x = s] }
        : s \in Add(o.x, o.x_vel, BigNumberBits) }

\* mutant: the disabled friction of line 87 is applied
applyXVelocity_friction(o) ==
  UNION { IF s < o.x_min
            THEN { [o EXCEPT !.x = o.x_min, !.x_vel = n - n \div 20] :
                     n \in Neg(o.x_vel, BigNumberBits) }
          ELSE IF s > o.x_max
            THEN { [o EXCEPT !.x = o.x_max, !.x_vel = n - n \div 20] :
                     n \in Neg(o.x_vel, BigNumberBits) }
          ELSE { [o EXCEPT !.x = s, !.x_vel = o.x_vel - o.x_vel \div 20] }
        : s \in Add(o.x, o.x_vel, BigNumberBits) }

applyXVelocity(o) ==
  UNION { IF s < o.x_min
            THEN { [o EXCEPT !.x = o.x_min, !.x_vel = n] :
                     n \in Neg(o.x_vel, BigNumberBits) }
          ELSE IF s > o.x_max
            THEN { [o EXCEPT !.x = o.x_max, !.x_vel = n] :
                     n \in Neg(o.x_vel, BigNumberBits) }
          ELSE { [o EXCEPT !.x = s] }
        : s \in Add(o.x, o.x_vel, BigNumberBits) }

\* mutant: the bounce on y_max is as elastic as the one on y_min
resolveY_elastic(o) ==
  IF o.y_vel # 0
    THEN UNION { IF s < o.y_min
                   THEN { [o EXCEPT !.y = o.y_min, !.y_vel = n] :
                            n \in Neg(o.y_vel, NumberBits) }
                 ELSE IF s > o.y_max
                   THEN { [o EXCEPT !.y = o.y_max, !.y_vel = n] :
                            n \in Neg(o.y_vel, NumberBits) }
                 ELSE { [o EXCEPT !.y = s] }
               : s \in Add(o.y, o.y_vel, NumberBits) }
    ELSE {o}

\* lines 91-100: the guarded position update and bound resolution
resolveY(o) ==
  IF o.y_vel # 0
    THEN UNION { IF s < o.y_min
                   THEN { [o EXCEPT !.y = o.y_min, !.y_vel = n] :
                            n \in Neg(o.y_vel, NumberBits) }
                 ELSE IF s > o.y_max
                   THEN { [o EXCEPT !.y = o.y_max, !.y_vel = r] :
                            r \in { NumberMul(n, CoefficientOfRestitution) :
                                    n \in Neg(o.y_vel, NumberBits) } }
                 ELSE { [o EXCEPT !.y = s] }
               : s \in Add(o.y, o.y_vel, NumberBits) }
    ELSE {o}

\* mutant: gravity is added inside the y_vel != 0 guard
applyYVelocity_guarded(o) ==
  IF o.y_vel # 0
    THEN UNION { { [r EXCEPT !.y_vel = g] :
                     g \in Add(r.y_vel, CoefficientOfGravity, NumberBits) }
               : r \in resolveY(o) }
    ELSE {o}

\* mutant: gravity is added before the position is updated and resolved
applyYVelocity_before(o) ==
  UNION { resolveY([o EXCEPT !.y_vel = g])
        : g \in Add(o.y_vel, CoefficientOfGravity, NumberBits) }

applyYVelocity(o) ==
  UNION { { [r EXCEPT !.y_vel = g] :
              g \in Add(r.y_vel, CoefficientOfGravity, NumberBits) }
        : r \in resolveY(o) }

applyVelocity(o) == UNION { applyYVelocity(r) : r \in applyXVelocity(o) }

-----------------------------------------------------------------------------
(* Util.h: a random Number in [lo, hi]; the draws are sampled at DrawCount
   equal intervals of the range, both ends included *)

randomSFixed(lo, hi) ==
  IF hi <= lo THEN {lo}
  ELSE { lo + ((hi - lo) * k) \div DrawCount : k \in 0..DrawCount }

-----------------------------------------------------------------------------
(* Plane and Zeppelin *)

Plane_offscreen_x_margin == Big(10, 1)
Zeppelin_offscreen_x_margin == Big(20, 1)

Plane ==
  [GameObject EXCEPT !.x_min = -Plane_offscreen_x_margin - Big(plane_width, 1),
                     !.x_max = Big(WIDTH, 1) + Plane_offscreen_x_margin,
                     !.y_min = Num(0, 1),
                     !.y_max = Num(ravine_top - plane_height - 2, 1)]

\* mutant: the altitude is never drawn again
Plane_applyXVelocity_noreroll(p) == applyXVelocity(p)

Plane_applyXVelocity(p) ==
  UNION { IF b.x = b.x_min \/ b.x = b.x_max
            THEN { [b EXCEPT !.y = r] : r \in randomSFixed(b.y_min, b.y_max) }
            ELSE { b }
        : b \in applyXVelocity(p) }

Plane_reset(p) == [p EXCEPT !.x = Big(10, 1), !.y = Num(2, 1), !.x_vel = Big(1, 1)]

\* mutant: the constructor leaves the default vertical bounds
Zeppelin_unpinned ==
  [GameObject EXCEPT !.x_min = -Zeppelin_offscreen_x_margin - Big(plane_width, 1),
                     !.x_max = Big(WIDTH, 1) + Zeppelin_offscreen_x_margin]

Zeppelin ==
  [GameObject EXCEPT !.x_min = -Zeppelin_offscreen_x_margin - Big(plane_width, 1),
                     !.x_max = Big(WIDTH, 1) + Zeppelin_offscreen_x_margin,
                     !.y_min = Num(0, 1),
                     !.y_max = Num(0, 1)]

Zeppelin_reset(z) == [z EXCEPT !.x = z.x_max, !.y = Num(0, 1), !.x_vel = Big(-1, 2)]

-----------------------------------------------------------------------------
(* The screen state machine.  A world w is the program's data:
   [state, frameCount, plane, zeppelin]. *)

\* mutant: the transition leaves the frame counter running
enter_state_keep(w, newState) ==
  [w EXCEPT !.state = newState,
            !.plane = IF newState = GAME_ACTIVE THEN Plane_reset(w.plane) ELSE w.plane]

\* mutant: the transition forgets the plane
enter_state_noreset(w, newState) ==
  [w EXCEPT !.frameCount = 0, !.state = newState]

\* mutant: the transition into TITLE_SCREEN resets the zeppelin
enter_state_zeppelin(w, newState) ==
  [w EXCEPT !.frameCount = 0,
            !.state = newState,
            !.plane = IF newState = GAME_ACTIVE THEN Plane_reset(w.plane) ELSE w.plane,
            !.zeppelin = IF newState = TITLE_SCREEN THEN Zeppelin_reset(w.zeppelin)
                                                    ELSE w.zeppelin]

enter_state(w, newState) ==
  [w EXCEPT !.frameCount = 0,
            !.state = newState,
            !.plane = IF newState = GAME_ACTIVE THEN Plane_reset(w.plane) ELSE w.plane]

\* mutant: the logo leaves one frame early
initial_logo_early(w) ==
  IF w.frameCount >= 90 THEN enter_state(w, TITLE_SCREEN) ELSE w

initial_logo(w) ==
  IF w.frameCount > 90 THEN enter_state(w, TITLE_SCREEN) ELSE w

\* mutant: the start button leads to the objective screen (the disabled line 216)
title_screen_objective(w, justA) ==
  { IF justA THEN enter_state([w EXCEPT !.zeppelin = z], OBJECTIVE_SCREEN)
             ELSE [w EXCEPT !.zeppelin = z]
  : z \in applyXVelocity(IF w.frameCount = 1 THEN Zeppelin_reset(w.zeppelin)
                                             ELSE w.zeppelin) }

\* justA: arduboy.justPressed(A_BUTTON)
title_screen(w, justA) ==
  { IF justA THEN enter_state([w EXCEPT !.zeppelin = z], GAME_ACTIVE)
             ELSE [w EXCEPT !.zeppelin = z]
  : z \in applyXVelocity(IF w.frameCount = 1 THEN Zeppelin_reset(w.zeppelin)
                                             ELSE w.zeppelin) }

objective_screen(w) ==
  IF w.frameCount > 120 THEN enter_state(w, GAME_ACTIVE) ELSE w

\* mutant: steering against the direction of travel stops the plane
steer_stall(x_vel, left, right) ==
  LET v0 == IF x_vel < 0 THEN Big(-1, 1) ELSE Big(1, 1)
      v1 == IF left THEN (IF v0 < 0 THEN Big(-3, 2) ELSE 0) ELSE v0
  IN  IF right THEN (IF v1 < 0 THEN 0 ELSE Big(3, 2)) ELSE v1

\* mutant: Left and Right set the direction of travel
steer_direct(x_vel, left, right) ==
  LET v0 == IF x_vel < 0 THEN Big(-1, 1) ELSE Big(1, 1)
      v1 == IF left THEN Big(-3, 2) ELSE v0
  IN  IF right THEN Big(3, 2) ELSE v1

\* mutant: Right is read before Left, so Left's assignment wins
steer_leftwins(x_vel, left, right) ==
  LET v0 == IF x_vel < 0 THEN Big(-1, 1) ELSE Big(1, 1)
      v1 == IF right THEN (IF v0 < 0 THEN Big(-1, 2) ELSE Big(3, 2)) ELSE v0
  IN  IF left THEN (IF v1 < 0 THEN Big(-3, 2) ELSE Big(1, 2)) ELSE v1

\* lines 233-239: the velocity game_active gives the plane before integrating it
steer(x_vel, left, right) ==
  LET v0 == IF x_vel < 0 THEN Big(-1, 1) ELSE Big(1, 1)
      v1 == IF left THEN (IF v0 < 0 THEN Big(-3, 2) ELSE Big(1, 2)) ELSE v0
  IN  IF right THEN (IF v1 < 0 THEN Big(-1, 2) ELSE Big(3, 2)) ELSE v1

\* mutant: the reset needs only B's edge
game_active_anyB(w, live, justB) ==
  { IF justB THEN enter_state([w EXCEPT !.plane = p], INITIAL_LOGO)
             ELSE [w EXCEPT !.plane = p]
  : p \in Plane_applyXVelocity(
            [w.plane EXCEPT !.x_vel = steer(w.plane.x_vel, LEFT_BUTTON \in live,
                                            RIGHT_BUTTON \in live)]) }

\* live: the buttons arduboy.pressed() reads as down; justB: justPressed(B_BUTTON)
game_active(w, live, justB) ==
  { IF A_BUTTON \in live /\ justB THEN enter_state([w EXCEPT !.plane = p], INITIAL_LOGO)
                                  ELSE [w EXCEPT !.plane = p]
  : p \in Plane_applyXVelocity(
            [w.plane EXCEPT !.x_vel = steer(w.plane.x_vel, LEFT_BUTTON \in live,
                                            RIGHT_BUTTON \in live)]) }

\* playing: sound.playing()
level_complete(w, playing) ==
  IF w.frameCount > 150 /\ ~playing THEN enter_state(w, TITLE_SCREEN) ELSE w

\* mutant: a button counts as just pressed for as long as it is down
justPressed_level(previous, current) == current

\* the buttons for which arduboy.justPressed() is true after pollButtons():
\* down at this poll and up at the one before
justPressed(previous, current) == current \ previous

\* the switch of loop()
dispatch(w, just, live, playing) ==
  CASE w.state = INITIAL_LOGO -> { initial_logo(w) }
    [] w.state = TITLE_SCREEN -> title_screen(w, A_BUTTON \in just)
    [] w.state = OBJECTIVE_SCREEN -> { objective_screen(w) }
    [] w.state = GAME_ACTIVE -> game_active(w, live, B_BUTTON \in just)
    [] w.state = LEVEL_COMPLETE -> { level_complete(w, playing) }

-----------------------------------------------------------------------------
(* State *)

World == [state |-> state, frameCount |-> frameCount, plane |-> plane, zeppelin |-> zeppelin]

\* What the last step did: the operation, the state and plane it started from,
\* the frame counter its handler saw, the buttons it read, and whether the
\* step before it had entered the state (fresh).
NoOp == [op |-> "none", state0 |-> INITIAL_LOGO, frame |-> 0, just |-> {}, live |-> {},
         x0 |-> 0, xvel0 |-> 0, fresh |-> FALSE,
         y0 |-> 0, yvel0 |-> 0, argX |-> 0, argY |-> 0]

\* the globals as constructed, before setup()
Constructed ==
  /\ pc = "constructed"
  /\ state = INITIAL_LOGO
  /\ frameCount = 0
  /\ plane = Plane
  /\ zeppelin = Zeppelin
  /\ buttons = {}
  /\ ticks = 0
  /\ quiet = TRUE
  /\ last = NoOp

Init == Constructed /\ body = GameObject

Install(w) ==
  /\ state' = w.state
  /\ frameCount' = w.frameCount
  /\ plane' = w.plane
  /\ zeppelin' = w.zeppelin

setup ==
  /\ pc = "constructed"
  /\ pc' = "running"
  /\ Install(enter_state(World, INITIAL_LOGO))
  /\ buttons' = {}
  /\ ticks' = 0
  /\ quiet' = TRUE
  /\ last' = [NoOp EXCEPT !.op = "setup", !.state0 = state, !.x0 = plane.x,
                          !.xvel0 = plane.x_vel, !.y0 = plane.y,
                          !.yvel0 = plane.y_vel]
  /\ body' = body

\* the frames the model explores in a state before it stops
FrameCap(s, titleCap, gameCap) ==
  CASE s = TITLE_SCREEN -> titleCap
    [] s = GAME_ACTIVE -> gameCap
    [] OTHER -> Pow2(FrameBits)

\* One pass of loop() in which nextFrame() is true.  polled: the buttons down
\* at pollButtons(); live: the buttons down when pressed() reads them.
loop(polled, live, playing, titleCap, gameCap) ==
  /\ pc = "running"
  /\ frameCount < FrameCap(state, titleCap, gameCap)
  /\ state # GAME_ACTIVE => live = {}
  /\ state # LEVEL_COMPLETE => playing = FALSE
  /\ LET just == justPressed(buttons, polled)
         w0 == [World EXCEPT !.frameCount = (frameCount + 1) % Pow2(FrameBits)]
     IN  /\ \E w \in dispatch(w0, just, live, playing) : Install(w)
         /\ last' = [op |-> "tick", state0 |-> state, frame |-> w0.frameCount,
                     just |-> just, live |-> live,
                     x0 |-> plane.x, xvel0 |-> plane.x_vel,
                     fresh |-> (last.op = "setup" \/ (last.op = "tick" /\ last.state0 # state)),
                     y0 |-> plane.y, yvel0 |-> plane.y_vel, argX |-> 0, argY |-> 0]
  /\ buttons' = polled
  /\ ticks' = IF ticks < TickHorizon THEN ticks + 1 ELSE ticks
  /\ quiet' = (quiet /\ polled = {} /\ live = {})
  /\ pc' = pc
  /\ body' = body

Tick ==
  \E polled \in SUBSET {A_BUTTON, B_BUTTON}, live \in SUBSET {LEFT_BUTTON, RIGHT_BUTTON, A_BUTTON},
     playing \in BOOLEAN :
    loop(polled, live, playing, MaxTitleFrames, MaxGameFrames)

Next == setup \/ Tick

Spec == Init /\ [][Next]_vars

\* SpecTour: the same program played by a player who starts the game within
\* the first StartWindow title frames or not at all, never presses B, and
\* steers only while the plane is within SteerZone pixels of a bound; both
\* screens run long enough for the zeppelin and the plane to reach both bounds.
NearBound(p) ==
  \/ p.x - p.x_min <= Big(SteerZone, 1)
  \/ p.x_max - p.x <= Big(SteerZone, 1)

TourTick ==
  \E polled \in SUBSET {A_BUTTON}, live \in SUBSET {LEFT_BUTTON, RIGHT_BUTTON} :
    /\ A_BUTTON \in polled => (state = TITLE_SCREEN /\ frameCount < StartWindow)
    /\ live # {} => NearBound(plane)
    /\ loop(polled, live, FALSE, TourTitleFrames, TourGameFrames)

NextTour == setup \/ TourTick

SpecTour == Init /\ [][NextTour]_vars

-----------------------------------------------------------------------------
(* The physics operations on their own *)

Harness(op, o) ==
  [NoOp EXCEPT !.op = op, !.x0 = o.x, !.xvel0 = o.x_vel, !.y0 = o.y, !.yvel0 = o.y_vel]

Frozen == UNCHANGED <<pc, state, frameCount, plane, buttons, ticks, quiet>>

\* SpecBounce: one applyXVelocity step of a body with the bounds of a plain
\* GameObject, of the Plane or of the Zeppelin, at a sampled position and
\* with a sampled velocity, the extremes of the 32-bit range among them.
Epsilon == 1

SampleBodies == { GameObject, Plane, Zeppelin }

SampleX(o) ==
  { o.x_min, o.x_min + Epsilon, o.x_min + Big(1, 2), o.x_min + Big(MaxSpeed, 1),
    (o.x_min + o.x_max) \div 2,
    o.x_max - Big(MaxSpeed, 1), o.x_max - Big(1, 2), o.x_max - Epsilon, o.x_max }

SampleXVel ==
  LET speeds == { 0, Epsilon, Big(1, 2), Big(1, 1), Big(3, 2), Big(1000, 1),
                  MaxOf(BigNumberBits) - Big(MaxSpeed, 1), MaxOf(BigNumberBits) }
                \cup { Big(k, 1) : k \in 1..MaxSpeed }
  IN  speeds \cup { -v : v \in speeds } \cup { MinOf(BigNumberBits) }

InitBounce ==
  /\ Constructed
  /\ \E o \in SampleBodies : \E x \in SampleX(o) : \E v \in SampleXVel :
       body = [o EXCEPT !.x = x, !.x_vel = v]

BounceStep ==
  /\ last.op = "none"
  /\ body' \in applyXVelocity(body)
  /\ last' = Harness("applyXVelocity", body)
  /\ zeppelin' = zeppelin
  /\ Frozen

SpecBounce == InitBounce /\ [][BounceStep]_vars

\* SpecMove: one move(newX, newY) of a plain GameObject, the Plane or the
\* Zeppelin, somewhere inside its bounds and moving, to sampled arguments
\* below, on, between and above the bounds, the extremes of both types among
\* them.
SampleY(o) == { o.y_min, (o.y_min + o.y_max) \div 2, o.y_max }

SampleNewX(o) ==
  { MinOf(BigNumberBits), o.x_min - Big(MaxSpeed, 1), o.x_min - Epsilon, o.x_min,
    (o.x_min + o.x_max) \div 2,
    o.x_max, o.x_max + Epsilon, o.x_max + Big(MaxSpeed, 1), MaxOf(BigNumberBits) }

SampleNewY(o) ==
  { MinOf(NumberBits), o.y_min - Num(MaxSpeed, 1), o.y_min - Epsilon, o.y_min,
    (o.y_min + o.y_max) \div 2,
    o.y_max, o.y_max + Epsilon, o.y_max + Num(MaxSpeed, 1), MaxOf(NumberBits) }

InitMove ==
  /\ Constructed
  /\ \E o \in SampleBodies : \E x \in SampleX(o) : \E y \in SampleY(o) :
       body = [o EXCEPT !.x = x, !.y = y, !.x_vel = Big(-3, 2), !.y_vel = Num(1, 2)]

MoveStep ==
  /\ last.op = "none"
  /\ \E newX \in SampleNewX(body) : \E newY \in SampleNewY(body) :
       /\ body' = move(body, newX, newY)
       /\ last' = [Harness("move", body) EXCEPT !.argX = newX, !.argY = newY]
  /\ zeppelin' = zeppelin
  /\ Frozen

SpecMove == InitMove /\ [][MoveStep]_vars

\* SpecStepY: one applyYVelocity of a plain GameObject, the Plane or the
\* Zeppelin from sampled heights inside its bounds with sampled vertical
\* velocities: at rest, slow, fast, and at the ends of the 16-bit range.
SampleHeight(o) ==
  { o.y_min, o.y_min + Epsilon, (o.y_min + o.y_max) \div 2, o.y_max - Epsilon, o.y_max }
  \cap (o.y_min .. o.y_max)

SampleYVel ==
  LET speeds == { 0, Epsilon, Num(1, 4), Num(1, 2), Num(7, 10), Num(1, 1),
                  MaxOf(NumberBits) - CoefficientOfGravity,
                  MaxOf(NumberBits) - CoefficientOfGravity + Epsilon,
                  MaxOf(NumberBits) }
                \cup { Num(k, 1) : k \in 1..MaxSpeed }
  IN  speeds \cup { -v : v \in speeds } \cup { MinOf(NumberBits) }

InitStepY ==
  /\ Constructed
  /\ \E o \in SampleBodies : \E y \in SampleHeight(o) : \E v \in SampleYVel :
       body = [o EXCEPT !.y = y, !.y_vel = v]

StepY ==
  /\ last.op = "none"
  /\ body' \in applyYVelocity(body)
  /\ last' = Harness("applyYVelocity", body)
  /\ zeppelin' = zeppelin
  /\ Frozen

SpecStepY == InitStepY /\ [][StepY]_vars

\* SpecFall: a plain GameObject (default bounds) let go at rest from Drops + 1
\* heights spread over its bounds, and applyYVelocity called on it again and
\* again; the body is in a state it has been in before after finitely many
\* calls, so the run is a finite graph.
StartHeights == { (GameObject.y_max * k) \div Drops : k \in 0..Drops }

InitFall ==
  /\ Constructed
  /\ \E y \in StartHeights : body = [GameObject EXCEPT !.y = y]

FallStep ==
  /\ body' \in applyYVelocity(body)
  /\ last' = Harness("fall", body)
  /\ zeppelin' = zeppelin
  /\ Frozen

SpecFall == InitFall /\ [][FallStep]_vars

\* applyYVelocity is called for as long as the program runs
SpecFallFair == SpecFall /\ WF_vars(FallStep)

\* SpecFlight: GAME_ACTIVE as enter_state leaves it, and game_active called
\* again and again with any of Left and Right held and no reset combination.
\* game_active does not read the frame counter, which is left where
\* enter_state put it, so the runs that stay in GAME_ACTIVE for ever are the
\* paths of a finite graph.
InitFlight ==
  /\ pc = "running"
  /\ LET w == enter_state([state |-> INITIAL_LOGO, frameCount |-> 0,
                           plane |-> Plane, zeppelin |-> Zeppelin], GAME_ACTIVE)
     IN  /\ state = w.state /\ frameCount = w.frameCount
         /\ plane = w.plane /\ zeppelin = w.zeppelin
  /\ buttons = {} /\ ticks = 0 /\ quiet = TRUE /\ last = NoOp /\ body = GameObject

FlightStep ==
  /\ state = GAME_ACTIVE
  /\ \E live \in SUBSET {LEFT_BUTTON, RIGHT_BUTTON} :
       /\ \E w \in game_active(World, live, FALSE) : Install(w)
       /\ last' = [Harness("game_active", plane) EXCEPT !.state0 = state, !.live = live]
  /\ UNCHANGED <<pc, buttons, ticks, quiet, body>>

SpecFlight == InitFlight /\ [][FlightStep]_vars

\* loop() calls game_active for as long as the state is GAME_ACTIVE
SpecFlightFair == SpecFlight /\ WF_vars(FlightStep)

\* SpecZep: the Zeppelin as constructed, under any sequence of its reset and
\* of the three integration steps.
ZepReset ==
  /\ zeppelin' = Zeppelin_reset(zeppelin)
  /\ last' = Harness("reset", zeppelin)
  /\ body' = body
  /\ Frozen

ZepApplyX ==
  /\ zeppelin' \in applyXVelocity(zeppelin)
  /\ last' = Harness("applyXVelocity", zeppelin)
  /\ body' = body
  /\ Frozen

ZepApplyY ==
  /\ zeppelin' \in applyYVelocity(zeppelin)
  /\ last' = Harness("applyYVelocity", zeppelin)
  /\ body' = body
  /\ Frozen

ZepApply ==
  /\ zeppelin' \in applyVelocity(zeppelin)
  /\ last' = Harness("applyVelocity", zeppelin)
  /\ body' = body
  /\ Frozen

NextZep == ZepReset \/ ZepApplyX \/ ZepApplyY \/ ZepApply

SpecZep == Init /\ [][NextZep]_vars

-----------------------------------------------------------------------------
(* The screen state machine: claims checked under Spec *)

Ticked(s) == last.op = "tick" /\ last.state0 = s

\* C1: from setup() on, whatever the buttons, the active state is never
\* OBJECTIVE_SCREEN and never LEVEL_COMPLETE: only INITIAL_LOGO, TITLE_SCREEN
\* and GAME_ACTIVE are reached.
C1_OnlyThreeStates == state \in {INITIAL_LOGO, TITLE_SCREEN, GAME_ACTIVE}

\* the machine has gone round: a GAME_ACTIVE tick has reset to INITIAL_LOGO
C1_Witness == Ticked(GAME_ACTIVE) /\ state = INITIAL_LOGO

\* C2: whatever the buttons, the state is INITIAL_LOGO after each of the first
\* 90 ticks after setup() and TITLE_SCREEN after the 91st.
C2_LogoLasts91Ticks ==
  pc = "running" =>
    /\ (ticks \in 0..90 => state = INITIAL_LOGO)
    /\ (ticks = 91 => state = TITLE_SCREEN /\ Ticked(INITIAL_LOGO) /\ last.frame = 91)

\* the 91st tick, reached with buttons pressed on the way
C2_Witness == pc = "running" /\ ticks = 91 /\ ~quiet /\ buttons # {} /\ state = TITLE_SCREEN

\* C3 as stated: after exactly 91 ticks with no input the frame counter is 1.
C3_FrameCounterOneAfter91 ==
  (pc = "running" /\ ticks = 91 /\ quiet) => frameCount = 1

\* C3, amended: after exactly 91 ticks with no input the state is TITLE_SCREEN
\* and the frame counter is 0 (reset by the transition, not yet incremented);
\* it is 1 after the 92nd tick.
C3_FrameCounterZeroAfter91 ==
  (pc = "running" /\ quiet) =>
    /\ (ticks = 91 => state = TITLE_SCREEN /\ frameCount = 0)
    /\ (ticks = 92 => state = TITLE_SCREEN /\ frameCount = 1)

C3_Witness == pc = "running" /\ ticks = 92 /\ quiet /\ frameCount = 1

\* C4: a TITLE_SCREEN tick in which A is just pressed ends, whatever the frame
\* counter, in GAME_ACTIVE with the plane at x = 10, y = 2, x_vel = 1.
C4_StartResetsPlane ==
  (Ticked(TITLE_SCREEN) /\ A_BUTTON \in last.just) =>
    /\ state = GAME_ACTIVE
    /\ plane.x = Big(10, 1) /\ plane.y = Num(2, 1) /\ plane.x_vel = Big(1, 1)

\* a start on a later title frame, with the plane away from its start position
C4_Witness ==
  /\ Ticked(TITLE_SCREEN) /\ A_BUTTON \in last.just /\ last.frame > 1
  /\ last.x0 # Big(10, 1) /\ last.xvel0 # Big(1, 1)
  /\ state = GAME_ACTIVE

\* C5: a GAME_ACTIVE tick changes the state exactly when A is held and B is
\* just pressed on it, and then to INITIAL_LOGO; every other tick stays in
\* GAME_ACTIVE.
C5_ResetCombo ==
  Ticked(GAME_ACTIVE) =>
    IF A_BUTTON \in last.live /\ B_BUTTON \in last.just
      THEN state = INITIAL_LOGO
      ELSE state = GAME_ACTIVE

\* the combo read with Left and Right down as well
C5_Witness ==
  /\ Ticked(GAME_ACTIVE) /\ state = INITIAL_LOGO
  /\ last.live = {LEFT_BUTTON, RIGHT_BUTTON, A_BUTTON}

\* C6: a tick that changed the active state, and setup(), leave the frame
\* counter at 0, and the first handler run of the state entered sees 1.
C6_TransitionResetsFrameCounter ==
  /\ (last.op = "tick" /\ state # last.state0) => frameCount = 0
  /\ last.op = "setup" => (frameCount = 0 /\ state = INITIAL_LOGO)
  /\ (last.op = "tick" /\ last.fresh) => last.frame = 1

\* the first GAME_ACTIVE tick after a start on a later title frame
C6_Witness ==
  /\ Ticked(GAME_ACTIVE) /\ last.fresh /\ last.frame = 1
  /\ ticks = TickHorizon

-----------------------------------------------------------------------------
(* The plane in play: claims checked under SpecTour *)

\* the velocity C7 gives for a direction of travel and the Left/Right inputs
C7_Velocity(movingLeft, left, right) ==
  IF right THEN (IF movingLeft THEN Big(-1, 2) ELSE Big(3, 2))
  ELSE IF left THEN (IF movingLeft THEN Big(-3, 2) ELSE Big(1, 2))
  ELSE (IF movingLeft THEN Big(-1, 1) ELSE Big(1, 1))

\* C7: the velocity a GAME_ACTIVE tick integrates depends only on the sign of
\* the previous x_vel and on Left/Right: -1/+1 with no input, -1.5/+0.5 with
\* Left, -0.5/+1.5 with Right, and the Right value with both.  The plane moves
\* by it, or bounces off a bound with it negated.
C7_SteeringTable ==
  Ticked(GAME_ACTIVE) =>
    LET v == C7_Velocity(last.xvel0 < 0, LEFT_BUTTON \in last.live, RIGHT_BUTTON \in last.live)
        s == last.x0 + v
    IN  IF s < plane.x_min THEN plane.x = plane.x_min /\ plane.x_vel = -v
        ELSE IF s > plane.x_max THEN plane.x = plane.x_max /\ plane.x_vel = -v
        ELSE plane.x = s /\ plane.x_vel = v

\* both buttons down while the plane moves left: it moves by -0.5
C7_Witness ==
  /\ Ticked(GAME_ACTIVE) /\ last.xvel0 < 0
  /\ last.live = {LEFT_BUTTON, RIGHT_BUTTON}
  /\ plane.x = last.x0 + Big(-1, 2)

InBounds(o) == o.x_min <= o.x /\ o.x <= o.x_max /\ o.y_min <= o.y /\ o.y <= o.y_max

\* C9: in every reachable state (constructed, set up, after every tick, reset
\* or altitude re-roll) the plane and the zeppelin are inside their bounds.
C9_EntitiesInBounds == InBounds(plane) /\ InBounds(zeppelin)

\* the plane, strictly inside before the tick, has bounced off its left bound
\* and been re-rolled to the lowest altitude
C9_Witness ==
  /\ Ticked(GAME_ACTIVE) /\ plane.x = plane.x_min /\ plane.y = plane.y_max
  /\ last.x0 > plane.x_min /\ plane.x_vel > 0

-----------------------------------------------------------------------------
(* GameObject::applyXVelocity: claims checked under SpecBounce *)

Stepped == last.op = "applyXVelocity" /\ body.x_min < last.x0 /\ last.x0 < body.x_max

\* b is a of opposite sign and the same magnitude
Opposite(a, b) == a # MinOf(BigNumberBits) /\ b = -a

\* x + x_vel, as a real number, is below x_min / above x_max
SumBelow == last.xvel0 < body.x_min - last.x0
SumAbove == last.xvel0 > body.x_max - last.x0

C8_Bounce ==
  IF SumBelow THEN body.x = body.x_min /\ Opposite(last.xvel0, body.x_vel)
  ELSE IF SumAbove THEN body.x = body.x_max /\ Opposite(last.xvel0, body.x_vel)
  ELSE body.x = last.x0 + last.xvel0 /\ body.x_vel = last.xvel0

Representable ==
  /\ last.xvel0 # MinOf(BigNumberBits)
  /\ IF last.xvel0 > 0 THEN last.x0 <= MaxOf(BigNumberBits) - last.xvel0
                       ELSE last.x0 >= MinOf(BigNumberBits) - last.xvel0

-----------------------------------------------------------------------------
(* The Zeppelin: claims checked under SpecZep *)

\* C10: the Zeppelin's y is exactly 0 in every state, after any sequence of
\* reset, applyXVelocity, applyYVelocity and applyVelocity steps.
C10_ZeppelinPinned == zeppelin.y = Num(0, 1)

\* the reset zeppelin has bounced off its left bound while falling
C10_Witness ==
  /\ last.op = "applyVelocity" /\ zeppelin.x = zeppelin.x_min /\ zeppelin.x_vel = Big(1, 2)
  /\ zeppelin.y_vel > CoefficientOfGravity \div 2 /\ zeppelin.y = Num(0, 1)

-----------------------------------------------------------------------------
(* GameObject::move: claims checked under SpecMove *)

\* C11: after move(newX, newY) of a body with x_min <= x_max and
\* y_min <= y_max, x is newX clamped to [x_min, x_max] and y is newY clamped
\* to [y_min, y_max], so the position is inside the bounds; the velocities and
\* the bounds are as before.
C11_MoveClamps ==
  last.op = "move" =>
    /\ body.x_min <= body.x /\ body.x <= body.x_max
    /\ body.y_min <= body.y /\ body.y <= body.y_max
    /\ (body.x_min <= last.argX /\ last.argX <= body.x_max) => body.x = last.argX
    /\ last.argX < body.x_min => body.x = body.x_min
    /\ last.argX > body.x_max => body.x = body.x_max
    /\ (body.y_min <= last.argY /\ last.argY <= body.y_max) => body.y = last.argY
    /\ last.argY < body.y_min => body.y = body.y_min
    /\ last.argY > body.y_max => body.y = body.y_max
    /\ body.x_vel = last.xvel0 /\ body.y_vel = last.yvel0
    /\ \E o \in SampleBodies :
         /\ body.x_min = o.x_min /\ body.x_max = o.x_max
         /\ body.y_min = o.y_min /\ body.y_max = o.y_max

\* a move of the Plane to the right of and below its bounds ends on its corner
C11_Witness ==
  /\ last.op = "move" /\ body.x_max = Plane.x_max /\ body.y_max = Plane.y_max
  /\ last.argX > body.x_max /\ last.argY > body.y_max
  /\ body.x = body.x_max /\ body.y = body.y_max /\ last.x0 < body.x_max

-----------------------------------------------------------------------------
(* Plane::applyXVelocity: claims checked under SpecTour *)

\* the last tick ran game_active and its horizontal step bounced: the plane
\* is not where the velocity it now has would have taken it, because it left
\* with the opposite velocity and was put back on the bound
PlaneBounced ==
  /\ Ticked(GAME_ACTIVE)
  /\ plane.x # last.x0 + plane.x_vel

PlaneOnBound == plane.x = plane.x_min \/ plane.x = plane.x_max

\* C12 as stated: the altitude is drawn again if and only if the call bounced,
\* so a call that does not bounce leaves y as it was, and a call that bounces
\* leaves a drawn altitude.
C12_RerollIffBounce ==
  Ticked(GAME_ACTIVE) =>
    IF PlaneBounced THEN plane.y \in randomSFixed(plane.y_min, plane.y_max)
                    ELSE plane.y = last.y0

\* C12, amended: the altitude is drawn again if and only if x is on x_min or
\* x_max after the call: on every bounce, and also on a call whose sum lands
\* exactly on a bound without bouncing; every other call leaves y as it was.
C12_RerollIffOnBound ==
  Ticked(GAME_ACTIVE) =>
    /\ PlaneBounced => PlaneOnBound
    /\ IF PlaneOnBound THEN plane.y \in randomSFixed(plane.y_min, plane.y_max)
                       ELSE plane.y = last.y0

\* the plane had landed exactly on x_max, and the bounce of the next tick drew
\* an altitude other than the one of the landing
C12_Witness ==
  /\ PlaneBounced /\ last.x0 = plane.x_max /\ plane.x = plane.x_max
  /\ plane.y # last.y0

-----------------------------------------------------------------------------
(* GameObject::applyYVelocity: claims checked under SpecStepY and SpecFall *)

\* -v * 0.7 in fixed point with 8 fractional bits
Lossy(v) == ((-v) * Num(7, 10)) \div Pow2(NumberFrac)

\* the position and the velocity C13 gives for a step from height y with
\* velocity v between the bounds lo and hi
C13_Position(y, v, lo, hi) ==
  IF v = 0 THEN y
  ELSE IF y + v < lo THEN lo
  ELSE IF y + v > hi THEN hi
  ELSE y + v

C13_VelocityAfter(y, v, lo, hi) ==
  IF v = 0 THEN Num(1, 2)
  ELSE IF y + v < lo THEN -v + Num(1, 2)
  ELSE IF y + v > hi THEN Lossy(v) + Num(1, 2)
  ELSE v + Num(1, 2)

C13_Case ==
  /\ body.y = C13_Position(last.y0, last.yvel0, body.y_min, body.y_max)
  /\ body.y_vel = C13_VelocityAfter(last.y0, last.yvel0, body.y_min, body.y_max)

\* C13 as stated: one applyYVelocity step adds gravity (0.5) exactly once,
\* after the bound resolution, whatever the branch and whatever the velocity.
C13_GravityOnce == last.op = "applyYVelocity" => C13_Case

\* y + v and the velocity of the case are values of the 16-bit Number
C13_Representable ==
  /\ Fits(last.y0 + last.yvel0, NumberBits)
  /\ Fits(C13_VelocityAfter(last.y0, last.yvel0, body.y_min, body.y_max), NumberBits)

\* C13, amended: whenever y + v and the resulting velocity are representable
\* in the 16-bit Number, one applyYVelocity step adds gravity (0.5) exactly
\* once after the bound resolution: v = 0 leaves y and gives y_vel = 0.5; a sum
\* inside the bounds gives y + v and v + 0.5; a sum below y_min gives y_min and
\* -v + 0.5; a sum above y_max gives y_max and -v * 0.7 + 0.5.
C13_GravityOnceRepresentable ==
  (last.op = "applyYVelocity" /\ C13_Representable) => C13_Case

\* a rising body hit y_min and left with its speed reversed plus gravity
C13_Witness ==
  /\ last.op = "applyYVelocity" /\ C13_Representable
  /\ last.yvel0 < 0 /\ last.y0 + last.yvel0 < body.y_min /\ body.y_min < body.y_max
  /\ body.y = body.y_min /\ body.y_vel = -last.yvel0 + Num(1, 2)

\* C14 as stated: a body at rest stays at rest: after every applyYVelocity
\* step of a body started with y_vel = 0, y_vel is 0 and y is as before.
C14_RestStaysAtRest ==
  last.op = "fall" => (body.y_vel = 0 /\ body.y = last.y0)

\* C14, amended: gravity is added outside the guard: a step from y_vel = 0
\* leaves y as it was and gives y_vel = 0.5, and a body let go at rest never
\* has y_vel = 0 after a step.
C14_RestGathersGravity ==
  last.op = "fall" =>
    /\ body.y_vel # 0
    /\ last.yvel0 = 0 => (body.y = last.y0 /\ body.y_vel = Num(1, 2))

\* the first step of a body let go above y_max
C14_Witness ==
  /\ last.op = "fall" /\ last.yvel0 = 0 /\ last.y0 < body.y_max
  /\ body.y = last.y0 /\ body.y_vel = Num(1, 2)

\* a falling body inside its bounds whose step ends beyond y_max
FloorBounce ==
  /\ last.op = "applyYVelocity"
  /\ body.y_min <= last.y0 /\ last.y0 <= body.y_max
  /\ last.yvel0 > 0 /\ last.y0 + last.yvel0 > body.y_max

\* C15 as stated: after the step of a floor bounce y is y_max and y_vel is
\* -v * 0.7.
C15_FloorBounce ==
  FloorBounce => (body.y = body.y_max /\ body.y_vel = Lossy(last.yvel0))

\* C15, amended: after the step of a floor bounce whose y + v is representable
\* in the 16-bit Number, y is y_max and y_vel is -v * 0.7 + 0.5: the gravity
\* of the same step is added to the reflected velocity.
C15_FloorBounceThenGravity ==
  (FloorBounce /\ Fits(last.y0 + last.yvel0, NumberBits)) =>
    (body.y = body.y_max /\ body.y_vel = Lossy(last.yvel0) + Num(1, 2))

\* a body falling at 3 pixels a frame leaves y_max upwards
C15_Witness ==
  /\ FloorBounce /\ last.yvel0 = Num(MaxSpeed, 1) /\ last.y0 < body.y_max
  /\ body.y = body.y_max /\ body.y_vel < 0

\* C20: a body with the default bounds let go at rest from any height inside
\* them comes to lie on y_max: from some step on y = y_max after every step,
\* while y_vel is never 0 after a step and stays within 8 pixels a frame.
C20_Settles ==
  /\ <>[](body.y = body.y_max)
  /\ [](last.op = "fall" => body.y_vel # 0)
  /\ [](body.y_vel \in -Num(8, 1)..Num(8, 1))

\* the body lies on y_max before and after a step, pressed down by less than
\* the gravity of one step each time
C20_Witness ==
  /\ last.op = "fall" /\ body.y_min < body.y_max
  /\ last.y0 = body.y_max /\ body.y = body.y_max
  /\ last.yvel0 \in 1..(Num(1, 2) - 1) /\ body.y_vel \in 1..(Num(1, 2) - 1)

-----------------------------------------------------------------------------
(* The title screen and the plane's steering *)

ZeppelinAtStart(z) == z.x = z.x_max /\ z.y = Num(0, 1) /\ z.x_vel = Big(-1, 2)

\* C16 as stated: resetting the zeppelin is an entry action of enter_state:
\* right after a transition into TITLE_SCREEN, before its first frame runs,
\* the zeppelin has x = x_max, y = 0 and x_vel = -0.5.
C16_ResetOnEntry ==
  (state = TITLE_SCREEN /\ frameCount = 0) => ZeppelinAtStart(zeppelin)

\* C16, amended: the zeppelin is reset by the first TITLE_SCREEN frame, not by
\* enter_state: a transition into TITLE_SCREEN leaves the zeppelin as it was,
\* and the first tick of TITLE_SCREEN resets it and moves it one step, to
\* x = x_max - 0.5, y = 0, x_vel = -0.5.
C16_ResetInFirstFrame ==
  [][ /\ (state # TITLE_SCREEN /\ state' = TITLE_SCREEN) => zeppelin' = zeppelin
      /\ (state = TITLE_SCREEN /\ frameCount = 0) =>
           /\ zeppelin'.x = zeppelin.x_max - Big(1, 2)
           /\ zeppelin'.y = Num(0, 1)
           /\ zeppelin'.x_vel = Big(-1, 2) ]_vars

\* the first TITLE_SCREEN tick after the logo has put the zeppelin half a
\* pixel left of x_max
C16_Witness ==
  /\ Ticked(TITLE_SCREEN) /\ last.frame = 1 /\ last.fresh
  /\ zeppelin.x = zeppelin.x_max - Big(1, 2) /\ zeppelin.x_vel = Big(-1, 2)

\* C17: steering never reverses the plane: after every GAME_ACTIVE tick x_vel
\* is one of -1.5, -1, -0.5, 0.5, 1, 1.5, and its sign differs from the one
\* before the tick only if the tick bounced.
C17_SteeringNeverReverses ==
  Ticked(GAME_ACTIVE) =>
    /\ plane.x_vel \in { Big(-3, 2), Big(-1, 1), Big(-1, 2),
                         Big(1, 2), Big(1, 1), Big(3, 2) }
    /\ ((plane.x_vel < 0) # (last.xvel0 < 0)) => PlaneBounced

\* Left held against a plane flying right: slower, still flying right
C17_Witness ==
  /\ Ticked(GAME_ACTIVE) /\ last.live = {LEFT_BUTTON} /\ last.xvel0 > 0
  /\ plane.x_vel = Big(1, 2) /\ plane.x = last.x0 + Big(1, 2)

\* C19: TITLE_SCREEN is left only by a tick at whose poll A is down after
\* being up at the poll before, and then for GAME_ACTIVE; with A held from
\* before the entry the state stays TITLE_SCREEN whatever the other buttons
\* and the frame counter.
C19_TitleLeftOnAEdge ==
  [][ (state = TITLE_SCREEN /\ state' # TITLE_SCREEN) =>
        (A_BUTTON \notin buttons /\ A_BUTTON \in buttons' /\ state' = GAME_ACTIVE) ]_vars

\* A was down at the polls of the first two TITLE_SCREEN frames and at the one
\* before them, B was pressed as well, and the title is still showing
C19_Witness ==
  /\ Ticked(TITLE_SCREEN) /\ last.frame = 2 /\ state = TITLE_SCREEN
  /\ A_BUTTON \in buttons /\ A_BUTTON \notin last.just /\ B_BUTTON \in last.just

-----------------------------------------------------------------------------
(* The plane's flight: claims checked under SpecFlightFair *)

\* the last call of game_active bounced the plane on the bound at
BouncedAt(at) ==
  /\ last.op = "game_active"
  /\ plane.x = at /\ plane.x # last.x0 + plane.x_vel

====
